---- MODULE Spec2Model ----
(***************************************************************************)
(* Weather lookup service: cache-aside reads against the weather provider, *)
(* asynchronous persistence of the query history and retention trimming.   *)
(*                                                                         *)
(* Strings are sequences of one-character tokens, so that lower(), upper() *)
(* and strip() are computed character by character.  The tokens "SIGMA",   *)
(* "sigma" and "fsigma" stand for U+03A3, U+03C3 and U+03C2.               *)
(***************************************************************************)
EXTENDS Integers, Sequences, FiniteSets, TLC

VARIABLES api_key, now, cache, queue, history, next_id, resp, api_calls,
          lookups, last_job, steps, inflight, trimmer

vars == <<api_key, now, cache, queue, history, next_id, resp, api_calls,
          lookups, last_job, steps, inflight, trimmer>>

(***************************************************************************)
(* Bounds of the model.                                                    *)
(***************************************************************************)
MaxSteps == 4
MaxLookups == 2
MaxQueue == 2

(***************************************************************************)
(* Program constants.                                                      *)
(***************************************************************************)
cache_timeout == 600
KeepCount == 100
CityMaxLength == 100
CountryMaxLength == 2

\* an absent (None) string; the empty string is <<>>
None == <<"None">>
NoExc == "NoExc"
NoData == [absent |-> TRUE]

(***************************************************************************)
(* Python str methods, on sequences of character tokens.                   *)
(***************************************************************************)
UpperLetters == {"R", "I", "O", "B", "SIGMA"}
LowerLetters == {"r", "i", "o", "b", "sigma", "fsigma"}
Whitespace == {" "}
CaseIgnorableChars == {"'"}

Cased(c) == c \in UpperLetters \cup LowerLetters

SimpleLower(c) ==
    CASE c = "R" -> "r"
      [] c = "I" -> "i"
      [] c = "O" -> "o"
      [] c = "B" -> "b"
      [] c = "SIGMA" -> "sigma"
      [] OTHER -> c

SimpleUpper(c) ==
    CASE c = "r" -> "R"
      [] c = "i" -> "I"
      [] c = "o" -> "O"
      [] c = "b" -> "B"
      [] c = "sigma" -> "SIGMA"
      [] c = "fsigma" -> "SIGMA"
      [] OTHER -> c

RECURSIVE PrevCased(_, _)
\* scanning left from position j, skipping case-ignorable characters:
\* is the first other character a cased letter?
PrevCased(s, j) ==
    IF j < 1 THEN FALSE
    ELSE IF s[j] \in CaseIgnorableChars THEN PrevCased(s, j - 1)
    ELSE Cased(s[j])

RECURSIVE NextCased(_, _)
NextCased(s, j) ==
    IF j > Len(s) THEN FALSE
    ELSE IF s[j] \in CaseIgnorableChars THEN NextCased(s, j + 1)
    ELSE Cased(s[j])

\* U+03A3 lowercases to the final form when it follows a cased letter and
\* no cased letter follows it.
FinalSigma(s, i) == PrevCased(s, i - 1) /\ ~NextCased(s, i + 1)

\* str.lower()
Lower(s) ==
    [i \in 1..Len(s) |->
        IF s[i] = "SIGMA"
        THEN (IF FinalSigma(s, i) THEN "fsigma" ELSE "sigma")
        ELSE SimpleLower(s[i])]

\* str.upper()
Upper(s) == [i \in 1..Len(s) |-> SimpleUpper(s[i])]

RECURSIVE LStrip(_)
LStrip(s) ==
    IF s # <<>> /\ Head(s) \in Whitespace THEN LStrip(Tail(s)) ELSE s

RECURSIVE RStrip(_)
RStrip(s) ==
    IF s # <<>> /\ s[Len(s)] \in Whitespace
    THEN RStrip(SubSeq(s, 1, Len(s) - 1)) ELSE s

\* str.strip()
Strip(s) == RStrip(LStrip(s))

\* Python truthiness of an optional string
Truthy(x) == x # None /\ x # <<>>

(***************************************************************************)
(* WeatherService._make_cache_key                                          *)
(***************************************************************************)
MakeCacheKeyIgnoringCountry(city, country) == <<"weather", ":">> \o Lower(city)

MakeCacheKey(city, country) ==
    IF Truthy(country)
    THEN <<"weather", ":">> \o Lower(city) \o <<":">> \o Lower(country)
    ELSE <<"weather", ":">> \o Lower(city)

(***************************************************************************)
(* The provider's reply to requests.get: a transport failure or an HTTP    *)
(* response with a status and a JSON payload.  A payload is the set of     *)
(* keys it holds, the length of its "weather" list and its values.         *)
(***************************************************************************)
PayloadKeys ==
    {"name", "sys", "sys.country", "main", "main.temp", "main.feels_like",
     "main.humidity", "main.pressure", "weather", "weather.description",
     "weather.icon", "wind", "wind.speed", "wind.deg", "visibility"}

Temps == {20, 25}

FullPayload(t) ==
    [keys |-> PayloadKeys, weather_items |-> 1,
     name |-> <<"R", "i", "o">>, country |-> <<"B", "R">>, temp |-> t,
     feels_like |-> 27, humidity |-> 65, pressure |-> 1013,
     description |-> "poucas nuvens", icon |-> "02d", wind_speed |-> 3,
     deg |-> 180, visibility |-> 10000]

\* a payload without its optional entries
Without(p, ks) == [p EXCEPT !.keys = @ \ ks]

Payloads ==
    {FullPayload(20), Without(FullPayload(25), {"wind.deg", "visibility"}),
     Without(FullPayload(20), {"weather.description"}),
     Without(FullPayload(20), {"sys", "sys.country"}),
     [Without(FullPayload(20), {"weather.description", "weather.icon"})
        EXCEPT !.weather_items = 0]}

\* the statuses a response can carry: success, redirection without a
\* target, client and server errors
ReplyStatuses == {200, 300, 401, 404, 500}

ProviderReplies ==
    {[kind |-> "response", status |-> 200, payload |-> p] : p \in Payloads}
    \cup {[kind |-> "response", status |-> st, payload |-> FullPayload(20)] :
            st \in ReplyStatuses \ {200}}
    \cup {[kind |-> k, status |-> 0, payload |-> FullPayload(20)] :
            k \in {"timeout", "connection", "request_exception"}}

(***************************************************************************)
(* WeatherService._parse_weather_data: the subscripts of the dict literal  *)
(* are evaluated in order; the first missing key raises KeyError, which is *)
(* turned into ValueError; an empty "weather" list raises IndexError,      *)
(* which is not caught.                                                    *)
(***************************************************************************)
RequiredAccesses ==
    <<"name", "sys.country", "main.temp", "main.feels_like", "main.humidity",
      "main.pressure", "weather.description", "weather.icon", "wind.speed">>

\* the dict a subscript chain goes through before its last key
ParentKey(path) ==
    CASE path = "sys.country" -> "sys"
      [] path \in {"main.temp", "main.feels_like", "main.humidity",
                   "main.pressure"} -> "main"
      [] path \in {"weather.description", "weather.icon"} -> "weather"
      [] path = "wind.speed" -> "wind"
      [] OTHER -> ""

\* the exception of one subscript chain and the key it reports
AccessError(data, path) ==
    LET parent == ParentKey(path) IN
    IF parent # "" /\ parent \notin data.keys
    THEN [exc |-> "KeyError", key |-> parent]
    ELSE IF parent = "weather" /\ data.weather_items = 0
    THEN [exc |-> "IndexError", key |-> ""]
    ELSE IF path \notin data.keys
    THEN [exc |-> "KeyError", key |-> path]
    ELSE [exc |-> NoExc, key |-> ""]

RECURSIVE FirstError(_, _)
FirstError(data, i) ==
    IF i > Len(RequiredAccesses) THEN [exc |-> NoExc, key |-> ""]
    ELSE IF AccessError(data, RequiredAccesses[i]).exc # NoExc
         THEN AccessError(data, RequiredAccesses[i])
         ELSE FirstError(data, i + 1)

\* f"Dados da API incompletos: {str(e)}" for the KeyError of a key
IncompleteMsg(key) ==
    CASE key = "name" -> "Dados da API incompletos: 'name'"
      [] key = "sys" -> "Dados da API incompletos: 'sys'"
      [] key = "sys.country" -> "Dados da API incompletos: 'country'"
      [] key = "main" -> "Dados da API incompletos: 'main'"
      [] key = "main.temp" -> "Dados da API incompletos: 'temp'"
      [] key = "main.feels_like" -> "Dados da API incompletos: 'feels_like'"
      [] key = "main.humidity" -> "Dados da API incompletos: 'humidity'"
      [] key = "main.pressure" -> "Dados da API incompletos: 'pressure'"
      [] key = "weather" -> "Dados da API incompletos: 'weather'"
      [] key = "weather.description" -> "Dados da API incompletos: 'description'"
      [] key = "weather.icon" -> "Dados da API incompletos: 'icon'"
      [] key = "wind" -> "Dados da API incompletos: 'wind'"
      [] key = "wind.speed" -> "Dados da API incompletos: 'speed'"
      [] OTHER -> "Dados da API incompletos"

ParseWeatherData(data, t) ==
    LET err == FirstError(data, 1) IN
    IF err.exc = "KeyError"
    THEN [exc |-> "ValueError", msg |-> IncompleteMsg(err.key), value |-> NoData]
    ELSE IF err.exc # NoExc
    THEN [exc |-> err.exc, msg |-> "list index out of range", value |-> NoData]
    ELSE [exc |-> NoExc, msg |-> "",
          value |-> [city |-> data.name,
                     country |-> data.country,
                     temperature |-> data.temp,
                     feels_like |-> data.feels_like,
                     humidity |-> data.humidity,
                     pressure |-> data.pressure,
                     description |-> data.description,
                     icon |-> data.icon,
                     wind_speed |-> data.wind_speed,
                     wind_direction |-> IF "wind.deg" \in data.keys THEN data.deg ELSE 0,
                     visibility |-> IF "visibility" \in data.keys
                                    THEN data.visibility ELSE 0,
                     timestamp |-> t]]

(***************************************************************************)
(* WeatherService._fetch_from_api.  calls is the number of requests.get    *)
(* calls made.                                                             *)
(***************************************************************************)
\* the try block: requests.get, the status checks, the parse
RequestProvider(city, country, reply, t) ==
    IF reply.kind = "timeout"
    THEN [exc |-> "ValueError", msg |-> "Timeout ao buscar dados",
          value |-> NoData, calls |-> 1]
    ELSE IF reply.kind = "connection"
    THEN [exc |-> "ValueError", msg |-> "Erro de conexao com a API",
          value |-> NoData, calls |-> 1]
    ELSE IF reply.kind = "request_exception"
    THEN [exc |-> "ValueError", msg |-> "Erro ao buscar dados",
          value |-> NoData, calls |-> 1]
    ELSE IF reply.status = 404
    THEN [exc |-> "ValueError", msg |-> "Cidade nao encontrada",
          value |-> NoData, calls |-> 1]
    ELSE IF reply.status = 401
    THEN [exc |-> "ValueError", msg |-> "API key invalida",
          value |-> NoData, calls |-> 1]
    ELSE IF reply.status >= 400
    THEN [exc |-> "ValueError", msg |-> "Erro ao buscar dados",
          value |-> NoData, calls |-> 1]
    ELSE LET parsed == ParseWeatherData(reply.payload, t) IN
         [exc |-> parsed.exc, msg |-> parsed.msg, value |-> parsed.value,
          calls |-> 1]

\* a fetch that does not look at the credential
FetchFromApiUnchecked(key_set, city, country, reply, t) ==
    RequestProvider(city, country, reply, t)

FetchFromApi(key_set, city, country, reply, t) ==
    IF ~key_set
    THEN [exc |-> "ValueError", msg |-> "API key nao configurada",
          value |-> NoData, calls |-> 0]
    ELSE RequestProvider(city, country, reply, t)

(***************************************************************************)
(* The cache store: django.core.cache get/set with a timeout.  An entry    *)
(* is a copy of the value given to set, readable until its timeout has     *)
(* elapsed.                                                                *)
(***************************************************************************)
\* an entry still readable at the instant its timeout has elapsed
CacheGetInclusive(store, key, t) ==
    IF key \in DOMAIN store /\ t <= store[key].set_at + store[key].timeout
    THEN store[key].value
    ELSE NoData

CacheGet(store, key, t) ==
    IF key \in DOMAIN store /\ t < store[key].set_at + store[key].timeout
    THEN store[key].value
    ELSE NoData

CacheSet(store, key, value, timeout, t) ==
    (key :> [value |-> value, set_at |-> t, timeout |-> timeout]) @@ store

(***************************************************************************)
(* WeatherService.get_weather, as the effects of one call.                 *)
(***************************************************************************)
HitResultUnflagged(cached_data) == ("cached" :> FALSE) @@ cached_data

\* cached_data['cached'] = True; return cached_data
HitResult(cached_data) == ("cached" :> TRUE) @@ cached_data

\* weather_data['cached'] = False; return weather_data
MissResult(weather_data) == ("cached" :> FALSE) @@ weather_data

SaveJob(city, country, weather_data, ip_address, user_agent) ==
    [task |-> "save_weather_query_async", city |-> city, country |-> country,
     weather_data |-> weather_data, ip_address |-> ip_address,
     user_agent |-> user_agent]

EnqueueAlways(city, country, weather_data, ip_address, user_agent) ==
    <<SaveJob(city, country, weather_data, ip_address, user_agent)>>

\* if ip_address: save_weather_query_async.delay(...)
EnqueueHistory(city, country, weather_data, ip_address, user_agent) ==
    IF Truthy(ip_address)
    THEN <<SaveJob(city, country, weather_data, ip_address, user_agent)>>
    ELSE <<>>

\* a hit that also refreshes the entry and records the query
ServiceHitRefreshing(store, cache_key, cached_data, city, country, ip_address, user_agent, t) ==
    [exc |-> NoExc, msg |-> "", value |-> HitResult(cached_data),
     store |-> CacheSet(store, cache_key, cached_data, cache_timeout, t),
     jobs |-> EnqueueHistory(city, country, cached_data, ip_address, user_agent),
     calls |-> 0]

\* if cached_data: ... return cached_data
ServiceHit(store, cache_key, cached_data, city, country, ip_address, user_agent, t) ==
    [exc |-> NoExc, msg |-> "", value |-> HitResult(cached_data),
     store |-> store, jobs |-> <<>>, calls |-> 0]

\* a failure that is remembered in the cache
ServiceFailureCached(store, cache_key, fetched, t) ==
    [exc |-> fetched.exc, msg |-> fetched.msg, value |-> NoData,
     store |-> CacheSet(store, cache_key, NoData, cache_timeout, t),
     jobs |-> <<>>, calls |-> fetched.calls]

\* _fetch_from_api raised: the exception leaves get_weather
ServiceFailure(store, cache_key, fetched, t) ==
    [exc |-> fetched.exc, msg |-> fetched.msg, value |-> NoData,
     store |-> store, jobs |-> <<>>, calls |-> fetched.calls]

\* a write that leaves an entry another request has just written
ServiceMissKeepingExisting(store, cache_key, weather_data, city, country, ip_address, user_agent, calls, t) ==
    [exc |-> NoExc, msg |-> "", value |-> MissResult(weather_data),
     store |-> IF CacheGet(store, cache_key, t) # NoData THEN store
               ELSE CacheSet(store, cache_key, weather_data, cache_timeout, t),
     jobs |-> EnqueueHistory(city, country, weather_data, ip_address, user_agent),
     calls |-> calls]

\* cache.set, then the history job, then weather_data['cached'] = False
ServiceMiss(store, cache_key, weather_data, city, country, ip_address, user_agent, calls, t) ==
    [exc |-> NoExc, msg |-> "", value |-> MissResult(weather_data),
     store |-> CacheSet(store, cache_key, weather_data, cache_timeout, t),
     jobs |-> EnqueueHistory(city, country, weather_data, ip_address, user_agent),
     calls |-> calls]

GetWeatherService(store, key_set, city, country, ip_address, user_agent, reply, t) ==
    LET cache_key == MakeCacheKey(city, country)
        cached_data == CacheGet(store, cache_key, t)
    IN  IF cached_data # NoData
        THEN ServiceHit(store, cache_key, cached_data, city, country,
                        ip_address, user_agent, t)
        ELSE LET fetched == FetchFromApi(key_set, city, country, reply, t) IN
             IF fetched.exc # NoExc
             THEN ServiceFailure(store, cache_key, fetched, t)
             ELSE ServiceMiss(store, cache_key, fetched.value, city, country,
                              ip_address, user_agent, fetched.calls, t)

(***************************************************************************)
(* WeatherRequestSerializer: the CharField checks (required, whitespace    *)
(* trimmed, not blank, max_length), then validate_city / validate_country. *)
(***************************************************************************)
\* a validation that accepts a city of any length
ValidateCityAnyLength(param) ==
    IF param = None THEN [ok |-> FALSE, value |-> None]
    ELSE IF Strip(param) = <<>> THEN [ok |-> FALSE, value |-> None]
    ELSE [ok |-> TRUE, value |-> Strip(param)]

ValidateCity(param) ==
    IF param = None THEN [ok |-> FALSE, value |-> None]
    ELSE LET value == Strip(param) IN
         IF value = <<>> THEN [ok |-> FALSE, value |-> None]
         ELSE IF Len(value) > CityMaxLength THEN [ok |-> FALSE, value |-> None]
         ELSE IF Strip(value) = <<>> THEN [ok |-> FALSE, value |-> None]
         ELSE IF Len(Strip(value)) < 2 THEN [ok |-> FALSE, value |-> None]
         ELSE [ok |-> TRUE, value |-> Strip(value)]

ValidateCountry(param) ==
    IF param = None THEN [ok |-> TRUE, value |-> None]
    ELSE LET value == Strip(param) IN
         IF value = <<>> THEN [ok |-> FALSE, value |-> None]
         ELSE IF Len(value) > CountryMaxLength THEN [ok |-> FALSE, value |-> None]
         ELSE IF Len(value) # 2 THEN [ok |-> FALSE, value |-> None]
         ELSE [ok |-> TRUE, value |-> Upper(value)]

(***************************************************************************)
(* views.get_client_ip.  The X-Forwarded-For header is its comma-separated *)
(* items; the empty header string is the single empty item.                *)
(***************************************************************************)
NoHeader == [present |-> FALSE, items |-> << <<>> >>]

GetClientIp(xff, remote_addr) ==
    IF xff.present /\ xff.items # << <<>> >>
    THEN xff.items[1]
    ELSE remote_addr

(***************************************************************************)
(* Request inputs.                                                         *)
(***************************************************************************)
HeaderOf(items) == [present |-> TRUE, items |-> items]

Req(city, country, xff, remote_addr, user_agent) ==
    [city |-> city, country |-> country, xff |-> xff,
     remote_addr |-> remote_addr, user_agent |-> user_agent]

Requests ==
    {Req(<<"R", "i", "o">>, <<"B", "R">>,
         HeaderOf(<< <<"10.0.0.1">>, <<"10.0.0.2">> >>), <<"10.0.0.9">>, <<"Mozilla">>),
     Req(<<" ", "r", "I", "O">>, <<"b", "r">>, NoHeader, None, <<>>),
     Req(<<"R", "i", "o">>, None, NoHeader, <<"10.0.0.9">>, <<>>),
     Req(<<"O", "SIGMA">>, None, NoHeader, None, <<"Mozilla">>),
     Req(<<"o", "sigma">>, None, HeaderOf(<< <<>>, <<"10.0.0.2">> >>), None, <<>>),
     Req(None, None, NoHeader, None, <<>>),
     Req(<<" ">>, <<"B", "R">>, NoHeader, None, <<>>),
     Req(<<"r">>, None, NoHeader, None, <<>>),
     Req(<<"R", "i", "o">>, <<"B">>, NoHeader, None, <<>>),
     Req(<<"R", "i", "o">>, <<"B", "R", "R">>, NoHeader, None, <<>>),
     Req(<<"R", "i", "o">>, <<"B", "R", " ">>, NoHeader, None, <<>>)}

(***************************************************************************)
(* models.WeatherQuery and its table.  A row is created from the keyword   *)
(* arguments given to objects.create: a field left out takes its default,  *)
(* '' for a CharField or TextField, NULL for any other field declared      *)
(* without one, and a NULL in a column that is not null=True is refused    *)
(* by the database (IntegrityError).                                       *)
(***************************************************************************)
ModelFields ==
    {"id", "city", "country", "temperature", "feels_like", "humidity",
     "pressure", "description", "icon", "wind_speed", "wind_direction",
     "visibility", "uv_index", "query_timestamp", "ip_address", "user_agent"}

TextFields == {"city", "country", "description", "icon", "user_agent"}

ZeroDefaultFields == {"wind_speed", "wind_direction", "visibility", "uv_index"}

NullableFields == {"ip_address"}

AutoFields == {"id", "query_timestamp"}

\* the columns that must be given a value by the caller
RequiredFields ==
    ModelFields \ (TextFields \cup ZeroDefaultFields \cup NullableFields
                   \cup AutoFields)

NewRow(kwargs, id, t) ==
    [f \in ModelFields |->
        IF f = "id" THEN id
        ELSE IF f = "query_timestamp" THEN t
        ELSE IF f \in DOMAIN kwargs THEN kwargs[f]
        ELSE IF f \in TextFields THEN <<>>
        ELSE IF f \in ZeroDefaultFields THEN 0
        ELSE None]

\* WeatherQuery.objects.create(**kwargs)
ObjectsCreate(rows, id, kwargs, t) ==
    IF RequiredFields \subseteq DOMAIN kwargs
    THEN [exc |-> NoExc, rows |-> Append(rows, NewRow(kwargs, id, t)),
          id |-> id, next_id |-> id + 1]
    ELSE [exc |-> "IntegrityError", rows |-> rows, id |-> 0, next_id |-> id]

\* the keyword arguments the tests create their rows with
FixtureKwargs ==
    [city |-> <<"R", "i", "o">>, country |-> <<"B", "R">>,
     temperature |-> 20, feels_like |-> 22, humidity |-> 60,
     pressure |-> 1010, description |-> "teste"]

OrEmpty(x) == IF Truthy(x) THEN x ELSE <<>>

CleanupJob == [task |-> "cleanup_old_queries"]

(***************************************************************************)
(* tasks.save_weather_query_async                                          *)
(***************************************************************************)
\* a job that asks for the trim whether or not its row was created
SaveThenAlwaysCleanup(rows, id, job, t) ==
    [exc |-> "IntegrityError", result |-> 0, rows |-> rows, next_id |-> id,
     jobs |-> <<CleanupJob>>]

SaveWeatherQueryAsync(rows, id, job, t) ==
    LET kwargs == [city |-> job.city,
                   country |-> OrEmpty(job.country),
                   temperature |-> job.weather_data.temperature,
                   description |-> job.weather_data.description,
                   ip_address |-> OrEmpty(job.ip_address),
                   user_agent |-> OrEmpty(job.user_agent)]
        created == ObjectsCreate(rows, id, kwargs, t)
    IN  IF created.exc = NoExc
        THEN [exc |-> NoExc, result |-> created.id, rows |-> created.rows,
              next_id |-> created.next_id, jobs |-> <<CleanupJob>>]
        ELSE [exc |-> created.exc, result |-> 0, rows |-> rows,
              next_id |-> created.next_id, jobs |-> <<>>]

(***************************************************************************)
(* tasks.cleanup_old_queries.  order_by on a name that is no field of the  *)
(* model raises FieldError; otherwise the rows outside the KeepCount       *)
(* first ones in descending order of that field are deleted.               *)
(***************************************************************************)
CleanupOrderField == "created_at"

RECURSIVE SelectRows(_, _)
SelectRows(rows, keep) ==
    IF rows = <<>> THEN <<>>
    ELSE IF Head(rows).id \in keep
         THEN <<Head(rows)>> \o SelectRows(Tail(rows), keep)
         ELSE SelectRows(Tail(rows), keep)

\* the ids of the n first rows in descending order of field (ties by id)
TopIds(rows, field, n) ==
    {rows[i].id : i \in
        {i \in 1..Len(rows) :
            Cardinality({j \in 1..Len(rows) :
                \/ rows[j][field] > rows[i][field]
                \/ rows[j][field] = rows[i][field] /\ rows[j].id > rows[i].id})
              < n}}

CleanupDropsOldest(rows) ==
    [exc |-> NoExc, result |-> IF rows = <<>> THEN 0 ELSE 1,
     rows |-> IF rows = <<>> THEN rows ELSE Tail(rows)]

CleanupOldQueries(rows) ==
    IF CleanupOrderField \notin ModelFields
    THEN [exc |-> "FieldError", result |-> 0, rows |-> rows]
    ELSE LET keep_ids == TopIds(rows, CleanupOrderField, KeepCount)
             kept == SelectRows(rows, keep_ids)
         IN  [exc |-> NoExc, result |-> Len(rows) - Len(kept), rows |-> kept]

(***************************************************************************)
(* cleanup_old_queries as the database sees it: one statement reads the    *)
(* ids to keep, a second one deletes the rows whose id is not among them,  *)
(* and other jobs write to the table between the two.  The job's state is  *)
(* its position and the ids it read; the runner notes with it what the     *)
(* job was started on: first_new, the id the next created row was to get   *)
(* (the rows with that id or a later one were created while the job ran),  *)
(* and waiting, the jobs that were left in the queue.                      *)
(***************************************************************************)
NoTrim == [pc |-> "idle", keep_ids |-> {}, first_new |-> 0, waiting |-> << >>]

\* a selection that orders by the timestamp the model declares
CleanupSelectByTimestamp(rows) ==
    [exc |-> NoExc, keep_ids |-> TopIds(rows, "query_timestamp", KeepCount)]

\* keep_ids = ...order_by('-created_at')[:100].values_list('id'); list(keep_ids)
CleanupSelect(rows) ==
    IF CleanupOrderField \notin ModelFields
    THEN [exc |-> "FieldError", keep_ids |-> {}]
    ELSE [exc |-> NoExc, keep_ids |-> TopIds(rows, CleanupOrderField, KeepCount)]

\* WeatherQuery.objects.exclude(id__in=keep_ids).delete()
CleanupDelete(rows, keep_ids) ==
    LET kept == SelectRows(rows, keep_ids)
    IN  [result |-> Len(rows) - Len(kept), rows |-> kept]

(***************************************************************************)
(* WeatherService.get_weather_history: the limit first rows in descending  *)
(* order of query_timestamp.  The table is held in the order of its index  *)
(* on query_timestamp, which is the order of insertion, since a row is     *)
(* stamped with the clock when it is inserted; the query reads the index   *)
(* from its newest end.  The database is free to return rows of equal      *)
(* timestamp in either order: id_desc tells which one it takes.  A limit   *)
(* is [some |-> FALSE] for None.  The table is returned with the listing:  *)
(* the query reads it and leaves it as it is.                              *)
(***************************************************************************)
DefaultLimit == 10
MaxLimit == 100

NoLimit == [some |-> FALSE, value |-> 0]

SomeLimit(n) == [some |-> TRUE, value |-> n]

RECURSIVE GroupLo(_, _)
\* the first and the last index of the rows stamped as rows[i] is
GroupLo(rows, i) ==
    IF i > 1 /\ rows[i - 1].query_timestamp = rows[i].query_timestamp
    THEN GroupLo(rows, i - 1) ELSE i

RECURSIVE GroupHi(_, _)
GroupHi(rows, i) ==
    IF i < Len(rows) /\ rows[i + 1].query_timestamp = rows[i].query_timestamp
    THEN GroupHi(rows, i + 1) ELSE i

\* the index in the table of the k-th row of order_by('-query_timestamp')
IndexOfNewest(rows, k, id_desc) ==
    LET i == Len(rows) - k + 1 IN
    IF id_desc THEN i
    ELSE GroupLo(rows, i) + (GroupHi(rows, i) - i)

\* order_by('-query_timestamp')[:n]
NewestFirst(rows, n, id_desc) ==
    [k \in 1..n |-> rows[IndexOfNewest(rows, k, id_desc)]]

\* a listing that starts with the oldest row
GetWeatherHistoryOldestFirst(rows, limit, id_desc) ==
    LET lim == IF limit.some THEN limit.value ELSE DefaultLimit
        n == IF lim < Len(rows) THEN lim ELSE Len(rows)
    IN  [value |-> SubSeq(rows, 1, n), rows |-> rows]

\* a listing that takes the rows it returns out of the table
GetWeatherHistoryConsuming(rows, limit, id_desc) ==
    LET lim == IF limit.some THEN limit.value ELSE DefaultLimit
        n == IF lim < Len(rows) THEN lim ELSE Len(rows)
    IN  [value |-> NewestFirst(rows, n, id_desc),
         rows |-> SubSeq(rows, 1, Len(rows) - n)]

GetWeatherHistory(rows, limit, id_desc) ==
    LET lim == IF limit.some THEN limit.value ELSE DefaultLimit
        n == IF lim < Len(rows) THEN lim ELSE Len(rows)
    IN  [value |-> NewestFirst(rows, n, id_desc), rows |-> rows]

(***************************************************************************)
(* int(limit_param): surrounding whitespace is dropped, then an optional   *)
(* sign and decimal digits are read; anything else raises ValueError.      *)
(***************************************************************************)
Digits == {"0", "1", "2", "3", "4", "5", "6", "7", "8", "9"}

DigitValue(c) ==
    CASE c = "0" -> 0 [] c = "1" -> 1 [] c = "2" -> 2 [] c = "3" -> 3
      [] c = "4" -> 4 [] c = "5" -> 5 [] c = "6" -> 6 [] c = "7" -> 7
      [] c = "8" -> 8 [] c = "9" -> 9

RECURSIVE Decimal(_)
Decimal(ds) ==
    IF ds = <<>> THEN 0
    ELSE 10 * Decimal(SubSeq(ds, 1, Len(ds) - 1)) + DigitValue(ds[Len(ds)])

PyInt(text) ==
    LET body == Strip(text)
        signed == body # <<>> /\ Head(body) \in {"+", "-"}
        ds == IF signed THEN Tail(body) ELSE body
    IN  IF ds # <<>> /\ \A i \in 1..Len(ds) : ds[i] \in Digits
        THEN [exc |-> NoExc,
              value |-> IF signed /\ Head(body) = "-"
                        THEN 0 - Decimal(ds) ELSE Decimal(ds)]
        ELSE [exc |-> "ValueError", value |-> 0]

\* the values of the limit query parameter
LimitParams ==
    {None, <<>>, <<"a", "b", "c">>, <<"3", ".", "5">>, <<"0">>, <<"-", "1">>,
     <<"3">>, <<" ", "1", "0", "0">>, <<"2", "0", "0">>}

\* WeatherQuerySerializer: the model fields of a row that are sent
SerializerFields == ModelFields \ {"ip_address", "user_agent"}

Serialize(row) == [f \in SerializerFields |-> row[f]]

\* The record of the last request answered: the endpoint, the status and
\* body of the response (error and details, or data / rows), the exception
\* the view caught, the stores the request read, and for a successful
\* lookup the validated parameters and client information it ran with.
NoResponse ==
    [endpoint |-> "", status |-> 0, cached |-> FALSE, data |-> NoData,
     error |-> "", details |-> {}, rows |-> <<>>, reads |-> {},
     exc |-> NoExc, city |-> None, country |-> None, ip |-> None,
     user_agent |-> None]

\* views.get_weather: the response to a call of the service that returned
\* or raised
WeatherResponse(r, city, country, client_ip, user_agent) ==
    IF r.exc = NoExc
    THEN [NoResponse EXCEPT !.endpoint = "weather",
                            !.status = 200,
                            !.cached = r.value.cached,
                            !.data = r.value,
                            !.reads = {"cache"},
                            !.city = city,
                            !.country = country,
                            !.ip = client_ip,
                            !.user_agent = user_agent]
    ELSE [NoResponse EXCEPT !.endpoint = "weather",
                            !.status = IF r.exc = "ValueError" THEN 400 ELSE 500,
                            !.error = IF r.exc = "ValueError" THEN r.msg
                                      ELSE "Erro interno do servidor",
                            !.reads = {"cache"},
                            !.exc = r.exc]

(***************************************************************************)
(* Requests handled at the same time, one per worker.  A worker's lookup   *)
(* is at "idle" before it starts, at "fetch" once cache.get has missed, at *)
(* "store" once the provider has answered, and at "done" when its response *)
(* is sent; it holds the parameters get_weather was called with, the       *)
(* record it fetched, its response and the time of its cache.set.          *)
(***************************************************************************)
Workers == {1, 2}

Idle ==
    [pc |-> "idle", city |-> None, country |-> None, ip |-> None,
     user_agent |-> None, fetched |-> NoData, resp |-> NoResponse,
     stored_at |-> 0 - 1]

(***************************************************************************)
(* The state after start-up: settings loaded, an empty cache, an empty     *)
(* job queue, and the history table as it was left.                        *)
(***************************************************************************)
Init ==
    /\ api_key \in BOOLEAN
    /\ now = 0
    /\ cache = << >>
    /\ queue = << >>
    /\ history = << >>
    /\ next_id = 1
    /\ resp = NoResponse
    /\ api_calls = 0
    /\ lookups = 0
    /\ last_job = [task |-> "", exc |-> NoExc, result |-> 0, next_id |-> 0,
                   rerun |-> FALSE]
    /\ steps = 0
    /\ inflight = [w \in Workers |-> Idle]
    /\ trimmer = NoTrim

\* the clock advances, by one second or to one second short of the timeout
Tick ==
    /\ steps < MaxSteps
    /\ \E d \in {1, cache_timeout - 1} : now' = now + d
    /\ steps' = steps + 1
    /\ UNCHANGED <<trimmer, inflight, api_key, cache, queue, history, next_id, resp, api_calls,
                   lookups, last_job>>

(***************************************************************************)
(* views.get_weather: GET /api/v1/                                         *)
(***************************************************************************)
GetWeatherFor(request, reply) ==
    /\ steps < MaxSteps
    /\ lookups < MaxLookups
    /\ LET vcity == ValidateCity(request.city)
           vcountry == ValidateCountry(request.country)
       IN  IF ~(vcity.ok /\ vcountry.ok)
           THEN /\ resp' = [NoResponse EXCEPT
                              !.endpoint = "weather",
                              !.status = 400,
                              !.error = "Parametros invalidos",
                              !.details = {f \in {"city", "country"} :
                                            \/ f = "city" /\ ~vcity.ok
                                            \/ f = "country" /\ ~vcountry.ok}]
                /\ UNCHANGED <<cache, queue, api_calls>>
           ELSE LET client_ip == GetClientIp(request.xff, request.remote_addr)
                    r == GetWeatherService(cache, api_key, vcity.value,
                                           vcountry.value, client_ip,
                                           request.user_agent, reply, now)
                IN  /\ Len(queue) + Len(r.jobs) <= MaxQueue
                    /\ resp' = WeatherResponse(r, vcity.value, vcountry.value,
                                               client_ip, request.user_agent)
                    /\ cache' = r.store
                    /\ queue' = queue \o r.jobs
                    /\ api_calls' = api_calls + r.calls
    /\ lookups' = lookups + 1
    /\ steps' = steps + 1
    /\ UNCHANGED <<trimmer, inflight, api_key, now, history, next_id, last_job>>

\* the provider replies only to the requests that pass validation
RepliesTo(request) ==
    IF ValidateCity(request.city).ok /\ ValidateCountry(request.country).ok
    THEN ProviderReplies
    ELSE {CHOOSE reply \in ProviderReplies : reply.kind = "timeout"}

GetWeatherView ==
    \E request \in Requests :
        \E reply \in RepliesTo(request) : GetWeatherFor(request, reply)

\* settings.OPENWEATHER_API_KEY is read at each request: the credential is
\* taken out of the settings while the cache store keeps its entries
RemoveApiKey ==
    /\ steps < MaxSteps
    /\ api_key = TRUE
    /\ api_key' = FALSE
    /\ steps' = steps + 1
    /\ UNCHANGED <<trimmer, inflight, now, cache, queue, history, next_id, resp, api_calls,
                   lookups, last_job>>

(***************************************************************************)
(* views.get_history: GET /api/v1/history/                                 *)
(***************************************************************************)
GetHistoryFor(limit_param, id_desc) ==
    /\ steps < MaxSteps
    /\ LET parsed == PyInt(limit_param) IN
       IF Truthy(limit_param) /\ parsed.exc = "ValueError"
       THEN /\ resp' = [NoResponse EXCEPT !.endpoint = "history",
                                          !.status = 400,
                                          !.error = "Limit deve ser um numero"]
            /\ UNCHANGED history
       ELSE IF Truthy(limit_param) /\ parsed.value <= 0
       THEN /\ resp' = [NoResponse EXCEPT !.endpoint = "history",
                                          !.status = 400,
                                          !.error = "Limit deve ser positivo"]
            /\ UNCHANGED history
       ELSE LET limit == IF ~Truthy(limit_param) THEN NoLimit
                         ELSE IF parsed.value > MaxLimit THEN SomeLimit(MaxLimit)
                         ELSE SomeLimit(parsed.value)
                r == GetWeatherHistory(history, limit, id_desc)
            IN  /\ resp' = [NoResponse EXCEPT
                              !.endpoint = "history",
                              !.status = 200,
                              !.rows = [k \in 1..Len(r.value) |->
                                           Serialize(r.value[k])],
                              !.reads = {"history"}]
                /\ history' = r.rows
    /\ steps' = steps + 1
    /\ UNCHANGED <<trimmer, inflight, api_key, now, cache, queue, next_id, api_calls, lookups,
                   last_job>>

GetHistoryView ==
    \E limit_param \in LimitParams, id_desc \in BOOLEAN :
        GetHistoryFor(limit_param, id_desc)

(***************************************************************************)
(* views.health_check: GET /api/v1/health/                                 *)
(***************************************************************************)
HealthCheckView ==
    /\ steps < MaxSteps
    /\ resp' = [NoResponse EXCEPT !.endpoint = "health", !.status = 200]
    /\ steps' = steps + 1
    /\ UNCHANGED <<trimmer, inflight, api_key, now, cache, queue, history, next_id, api_calls,
                   lookups, last_job>>

(***************************************************************************)
(* The job runner takes a queued save_weather_query_async job and runs it. *)
(* A job that raises is marked failed; no retry is configured.  last_job   *)
(* is the runner's record of the last job run: its task, the exception it  *)
(* raised, its return value, the next row id when it ended, and whether    *)
(* it reran the task of the job before it with no row created in between.  *)
(***************************************************************************)
RemoveAt(q, i) == SubSeq(q, 1, i - 1) \o SubSeq(q, i + 1, Len(q))

RunSaveJob ==
    /\ steps < MaxSteps
    /\ \E i \in 1..Len(queue) :
        /\ queue[i].task = "save_weather_query_async"
        /\ LET r == SaveWeatherQueryAsync(history, next_id, queue[i], now) IN
            /\ history' = r.rows
            /\ next_id' = r.next_id
            /\ queue' = RemoveAt(queue, i) \o r.jobs
            /\ last_job' = [task |-> "save_weather_query_async", exc |-> r.exc,
                            result |-> r.result, next_id |-> r.next_id,
                            rerun |-> FALSE]
    /\ steps' = steps + 1
    /\ UNCHANGED <<trimmer, inflight, api_key, now, cache, resp, api_calls, lookups>>

\* The job runner takes a queued cleanup_old_queries job and runs it.
RunCleanupJob ==
    /\ steps < MaxSteps
    /\ \E i \in 1..Len(queue) :
        /\ queue[i].task = "cleanup_old_queries"
        /\ LET r == CleanupOldQueries(history) IN
            /\ history' = r.rows
            /\ queue' = RemoveAt(queue, i)
            /\ last_job' = [task |-> "cleanup_old_queries", exc |-> r.exc,
                            result |-> r.result, next_id |-> next_id,
                            rerun |-> last_job.task = "cleanup_old_queries"
                                      /\ last_job.next_id = next_id]
    /\ steps' = steps + 1
    /\ UNCHANGED <<trimmer, inflight, api_key, now, cache, next_id, resp, api_calls, lookups>>

\* cleanup_old_queries.delay() sent by a periodic schedule or an operator
ScheduleCleanup ==
    /\ steps < MaxSteps
    /\ Len(queue) < MaxQueue
    /\ queue' = Append(queue, CleanupJob)
    /\ steps' = steps + 1
    /\ UNCHANGED <<trimmer, inflight, api_key, now, cache, history, next_id, resp, api_calls,
                   lookups, last_job>>

\* The job runner takes a queued cleanup_old_queries job and starts it.
BeginCleanup ==
    /\ steps < MaxSteps
    /\ trimmer.pc = "idle"
    /\ \E i \in 1..Len(queue) :
        /\ queue[i].task = "cleanup_old_queries"
        /\ queue' = RemoveAt(queue, i)
    /\ trimmer' = [pc |-> "select", keep_ids |-> {}, first_new |-> next_id,
                   waiting |-> queue']
    /\ steps' = steps + 1
    /\ UNCHANGED <<inflight, api_key, now, cache, history, next_id, resp,
                   api_calls, lookups, last_job>>

\* The started job runs its next statement: the selection, which ends the
\* job when it raises, or the delete, which ends it with the deleted count.
CleanupStatement ==
    /\ steps < MaxSteps
    /\ trimmer.pc # "idle"
    /\ IF trimmer.pc = "select"
       THEN LET selected == CleanupSelect(history) IN
            IF selected.exc # NoExc
            THEN /\ trimmer' = [trimmer EXCEPT !.pc = "idle"]
                 /\ last_job' = [task |-> "cleanup_old_queries",
                                 exc |-> selected.exc, result |-> 0,
                                 next_id |-> next_id,
                                 rerun |-> last_job.task = "cleanup_old_queries"
                                           /\ last_job.next_id = next_id]
                 /\ UNCHANGED history
            ELSE /\ trimmer' = [trimmer EXCEPT !.pc = "delete",
                                               !.keep_ids = selected.keep_ids]
                 /\ UNCHANGED <<history, last_job>>
       ELSE LET deleted == CleanupDelete(history, trimmer.keep_ids) IN
            /\ history' = deleted.rows
            /\ trimmer' = [trimmer EXCEPT !.pc = "idle"]
            /\ last_job' = [task |-> "cleanup_old_queries", exc |-> NoExc,
                            result |-> deleted.result, next_id |-> next_id,
                            rerun |-> last_job.task = "cleanup_old_queries"
                                      /\ last_job.next_id = next_id]
    /\ steps' = steps + 1
    /\ UNCHANGED <<inflight, api_key, now, cache, queue, next_id, resp,
                   api_calls, lookups>>

\* A row created through the model manager with every required field given
\* (the admin, the test fixtures).
CreateQuery ==
    /\ steps < MaxSteps
    /\ LET created == ObjectsCreate(history, next_id, FixtureKwargs, now)
       IN  /\ history' = created.rows
           /\ next_id' = created.next_id
    /\ steps' = steps + 1
    /\ UNCHANGED <<trimmer, inflight, api_key, now, cache, queue, resp, api_calls, lookups,
                   last_job>>

(***************************************************************************)
(* The lookup path: requests, the cache, the persist-history jobs.         *)
(***************************************************************************)
Next ==
    \/ Tick
    \/ GetWeatherView
    \/ RunSaveJob
    \/ RemoveApiKey

Spec == Init /\ [][Next]_vars

(***************************************************************************)
(* The history table and the trim job.  The table outlives the process:    *)
(* it starts with the rows left in it, InitialRows of them, created one    *)
(* time unit apart.                                                        *)
(***************************************************************************)
InitialRows == {0, 2, KeepCount + 1}

\* the table after n rows were created, the last of them at time t
Preloaded(n, t) == [i \in 1..n |-> NewRow(FixtureKwargs, i, t - (n - i))]

HistoryInit ==
    /\ api_key = TRUE
    /\ now = 0
    /\ cache = << >>
    /\ queue = << >>
    /\ \E n \in InitialRows :
        /\ history = Preloaded(n, 0)
        /\ next_id = n + 1
    /\ resp = NoResponse
    /\ api_calls = 0
    /\ lookups = 0
    /\ last_job = [task |-> "", exc |-> NoExc, result |-> 0, next_id |-> 0,
                   rerun |-> FALSE]
    /\ steps = 0
    /\ inflight = [w \in Workers |-> Idle]
    /\ trimmer = NoTrim

HistoryNext ==
    \/ Tick
    \/ CreateQuery
    \/ ScheduleCleanup
    \/ RunCleanupJob
    \/ GetHistoryView
    \/ HealthCheckView

HistorySpec == HistoryInit /\ [][HistoryNext]_vars

(***************************************************************************)
(* The three endpoints and the two jobs over a table that holds rows.      *)
(***************************************************************************)
RequestInit ==
    /\ api_key = TRUE
    /\ now = 2
    /\ cache = << >>
    /\ queue = << >>
    /\ \E n \in {0, 2} :
        /\ history = Preloaded(n, 1)
        /\ next_id = n + 1
    /\ resp = NoResponse
    /\ api_calls = 0
    /\ lookups = 0
    /\ last_job = [task |-> "", exc |-> NoExc, result |-> 0, next_id |-> 0,
                   rerun |-> FALSE]
    /\ steps = 0
    /\ inflight = [w \in Workers |-> Idle]
    /\ trimmer = NoTrim

RequestNext ==
    \/ GetWeatherView
    \/ GetHistoryView
    \/ HealthCheckView
    \/ RunSaveJob
    \/ ScheduleCleanup
    \/ RunCleanupJob

RequestSpec == RequestInit /\ [][RequestNext]_vars

(***************************************************************************)
(* The jobs run by several runner processes: a trim job, statement by      *)
(* statement, next to lookups, persist-history jobs and rows created       *)
(* through the model manager.  The state at the start is the one a first   *)
(* lookup, answered by the provider at time 1, and one scheduled trim      *)
(* leave: the record cached, the two jobs queued, none of them run yet,    *)
(* over a table that holds InitialRows rows.                               *)
(***************************************************************************)
FirstRequest ==
    CHOOSE q \in Requests :
        /\ ValidateCity(q.city).ok /\ ValidateCountry(q.country).ok
        /\ Truthy(GetClientIp(q.xff, q.remote_addr))

FirstLookup ==
    GetWeatherService(<< >>, TRUE, ValidateCity(FirstRequest.city).value,
                      ValidateCountry(FirstRequest.country).value,
                      GetClientIp(FirstRequest.xff, FirstRequest.remote_addr),
                      FirstRequest.user_agent,
                      [kind |-> "response", status |-> 200,
                       payload |-> FullPayload(20)], 1)

TrimInit ==
    /\ api_key = TRUE
    /\ now = 2
    /\ cache = FirstLookup.store
    /\ queue = FirstLookup.jobs \o <<CleanupJob>>
    /\ \E n \in InitialRows :
        /\ history = Preloaded(n, 1)
        /\ next_id = n + 1
    /\ resp = WeatherResponse(FirstLookup,
                              ValidateCity(FirstRequest.city).value,
                              ValidateCountry(FirstRequest.country).value,
                              GetClientIp(FirstRequest.xff,
                                          FirstRequest.remote_addr),
                              FirstRequest.user_agent)
    /\ api_calls = FirstLookup.calls
    /\ lookups = 1
    /\ last_job = [task |-> "", exc |-> NoExc, result |-> 0, next_id |-> 0,
                   rerun |-> FALSE]
    /\ steps = 0
    /\ inflight = [w \in Workers |-> Idle]
    /\ trimmer = NoTrim

TrimNext ==
    \/ GetWeatherView
    \/ RunSaveJob
    \/ ScheduleCleanup
    \/ BeginCleanup
    \/ CleanupStatement
    \/ CreateQuery

TrimSpec == TrimInit /\ [][TrimNext]_vars

(***************************************************************************)
(* get_weather run by two workers at once: the steps of one call, each     *)
(* touching the shared cache store or the provider once, interleave with   *)
(* the steps of the other.                                                 *)
(***************************************************************************)
\* the requests for one city, with and without the country
ConcurrentRequests ==
    {q \in Requests :
        /\ ValidateCity(q.city).ok /\ ValidateCountry(q.country).ok
        /\ Lower(ValidateCity(q.city).value) = <<"r", "i", "o">>}

WorkerKey(w) == MakeCacheKey(inflight[w].city, inflight[w].country)

\* validation, _make_cache_key and cache.get; a hit is answered at once
BeginLookup(w) ==
    /\ inflight[w].pc = "idle"
    /\ \E request \in ConcurrentRequests :
        LET city == ValidateCity(request.city).value
            country == ValidateCountry(request.country).value
            client_ip == GetClientIp(request.xff, request.remote_addr)
            cache_key == MakeCacheKey(city, country)
            cached_data == CacheGet(cache, cache_key, now)
            called == [Idle EXCEPT !.city = city, !.country = country,
                                   !.ip = client_ip,
                                   !.user_agent = request.user_agent]
        IN  IF cached_data # NoData
            THEN LET r == ServiceHit(cache, cache_key, cached_data, city,
                                     country, client_ip, request.user_agent, now)
                 IN  /\ inflight' = [inflight EXCEPT ![w] =
                            [called EXCEPT
                                !.pc = "done",
                                !.resp = WeatherResponse(r, city, country,
                                                         client_ip,
                                                         request.user_agent)]]
                     /\ cache' = r.store
                     /\ queue' = queue \o r.jobs
                     /\ api_calls' = api_calls + r.calls
            ELSE /\ inflight' = [inflight EXCEPT ![w] =
                                    [called EXCEPT !.pc = "fetch"]]
                 /\ UNCHANGED <<cache, queue, api_calls>>
    /\ UNCHANGED <<trimmer, api_key, now, history, next_id, resp, lookups,
                   last_job, steps>>

\* _fetch_from_api; a failure is answered at once
CallProvider(w) ==
    /\ inflight[w].pc = "fetch"
    /\ \E reply \in ProviderReplies :
        LET me == inflight[w]
            fetched == FetchFromApi(api_key, me.city, me.country, reply, now)
        IN  /\ api_calls' = api_calls + fetched.calls
            /\ IF fetched.exc # NoExc
               THEN LET r == ServiceFailure(cache, WorkerKey(w), fetched, now)
                    IN  inflight' = [inflight EXCEPT ![w] =
                            [me EXCEPT
                                !.pc = "done",
                                !.resp = WeatherResponse(r, me.city, me.country,
                                                         me.ip, me.user_agent)]]
               ELSE inflight' = [inflight EXCEPT ![w] =
                            [me EXCEPT !.pc = "store",
                                       !.fetched = fetched.value]]
    /\ UNCHANGED <<trimmer, api_key, now, cache, queue, history, next_id, resp,
                   lookups, last_job, steps>>

\* cache.set, the history job, the response
StoreAndReturn(w) ==
    /\ inflight[w].pc = "store"
    /\ LET me == inflight[w]
           r == ServiceMiss(cache, WorkerKey(w), me.fetched, me.city,
                            me.country, me.ip, me.user_agent, 1, now)
       IN  /\ cache' = r.store
           /\ queue' = queue \o r.jobs
           /\ inflight' = [inflight EXCEPT ![w] =
                    [me EXCEPT
                        !.pc = "done",
                        !.stored_at = now,
                        !.resp = WeatherResponse(r, me.city, me.country, me.ip,
                                                 me.user_agent)]]
    /\ UNCHANGED <<trimmer, api_key, now, history, next_id, resp, api_calls, lookups,
                   last_job, steps>>

ConcurrentInit ==
    /\ api_key = TRUE
    /\ now = 0
    /\ cache = << >>
    /\ queue = << >>
    /\ history = << >>
    /\ next_id = 1
    /\ resp = NoResponse
    /\ api_calls = 0
    /\ lookups = 0
    /\ last_job = [task |-> "", exc |-> NoExc, result |-> 0, next_id |-> 0,
                   rerun |-> FALSE]
    /\ steps = 0
    /\ inflight = [w \in Workers |-> Idle]
    /\ trimmer = NoTrim

ConcurrentNext ==
    \/ Tick
    \/ \E w \in Workers : BeginLookup(w)
    \/ \E w \in Workers : CallProvider(w)
    \/ \E w \in Workers : StoreAndReturn(w)

ConcurrentSpec == ConcurrentInit /\ [][ConcurrentNext]_vars

(***************************************************************************)
(* Properties.                                                             *)
(***************************************************************************)
\* a step of GetWeatherView
LookupStep == lookups' = lookups + 1

\* a record as stored, without the cached flag of a response
Unflagged(d) == [f \in (DOMAIN d) \ {"cached"} |-> d[f]]

RespKey(r) == MakeCacheKey(r.city, r.country)

\* C1: from an empty cache and with a provider that succeeds, a lookup whose
\* key was fetched less than 600 seconds ago answers cached=true without
\* calling the provider; any other successful lookup (the first for its key,
\* or one made once 600 seconds have elapsed) answers cached=false and calls
\* the provider exactly once.
C1_FirstMissThenHits ==
    [][(LookupStep /\ resp'.status = 200) =>
        LET key == RespKey(resp') IN
        IF key \in DOMAIN cache /\ now - cache[key].set_at < 600
        THEN resp'.cached = TRUE /\ api_calls' = api_calls
        ELSE resp'.cached = FALSE /\ api_calls' = api_calls + 1]_vars

C1_Witness ==
    /\ resp.status = 200 /\ resp.cached = TRUE
    /\ lookups = 2 /\ api_calls = 1
    /\ now > resp.data.timestamp

\* C2: in a successful response, cached is false exactly when the provider
\* was called during the request, and true exactly when the record returned
\* is the one the cache store held.
C2_CachedFlag ==
    [][(LookupStep /\ resp'.status = 200) =>
        /\ (resp'.cached = FALSE) <=> (api_calls' = api_calls + 1)
        /\ (resp'.cached = TRUE) <=>
              /\ api_calls' = api_calls
              /\ CacheGet(cache, RespKey(resp'), now) = Unflagged(resp'.data)]_vars

C2_Witness ==
    /\ resp.status = 200 /\ resp.cached = FALSE /\ api_calls = 2 /\ lookups = 2

\* C3: a lookup that hits the cache changes nothing: no provider call, no
\* job enqueued (client IP or not), the cache store as it was.
C3_HitFrame ==
    [][(/\ LookupStep /\ resp'.status = 200
        /\ CacheGet(cache, RespKey(resp'), now) # NoData) =>
        /\ api_calls' = api_calls
        /\ queue' = queue
        /\ cache' = cache
        /\ history' = history]_vars

C3_Witness ==
    /\ resp.status = 200 /\ resp.cached = TRUE /\ Truthy(resp.ip)

CaseEq(a, b) ==
    /\ Len(a) = Len(b)
    /\ \A i \in 1..Len(a) : SimpleUpper(a[i]) = SimpleUpper(b[i])

\* C5: a lookup whose city and country differ only in letter case from those
\* of the lookup before it, whose entry is still readable, has the same
\* cache key and is served from that entry.
C5_CaseInsensitiveKey ==
    [][(/\ LookupStep /\ resp.status = 200 /\ resp'.status = 200
        /\ CaseEq(resp.city, resp'.city)
        /\ CaseEq(resp.country, resp'.country)
        /\ CacheGet(cache, RespKey(resp), now) # NoData) =>
        /\ RespKey(resp') = RespKey(resp)
        /\ resp'.cached = TRUE]_vars

\* C6: when the first lookup fetched (city, country) and the next one asks
\* for the same city with the country given instead of absent, or absent
\* instead of given, the second is a miss that calls the provider, and
\* the first lookup's entry stays as it was beside the new one.
C6_CountryDistinguishesKey ==
    [][(/\ LookupStep /\ lookups = 1 /\ resp.status = 200 /\ resp'.status = 200
        /\ resp'.city = resp.city
        /\ (resp.country = None) # (resp'.country = None)) =>
        /\ RespKey(resp') # RespKey(resp)
        /\ resp'.cached = FALSE
        /\ api_calls' = api_calls + 1
        /\ DOMAIN cache' = {RespKey(resp), RespKey(resp')}
        /\ cache'[RespKey(resp)] = cache[RespKey(resp)]]_vars

C6_Witness ==
    /\ lookups = 2 /\ resp.status = 200 /\ resp.cached = FALSE
    /\ resp.country = None
    /\ MakeCacheKey(resp.city, <<"B", "R">>) \in DOMAIN cache
    /\ RespKey(resp) \in DOMAIN cache

\* C7: a lookup that fetched from the provider enqueues exactly one
\* persist-history job, carrying the city, the country, the fetched record,
\* the client IP and the user agent, when the client IP is not empty, and
\* none otherwise.
C7_EnqueueOnFreshFetch ==
    [][(LookupStep /\ resp'.status = 200 /\ resp'.cached = FALSE) =>
        queue' = IF Truthy(resp'.ip)
                 THEN Append(queue, SaveJob(resp'.city, resp'.country,
                                            Unflagged(resp'.data), resp'.ip,
                                            resp'.user_agent))
                 ELSE queue]_vars

C7_Witness ==
    /\ resp.status = 200 /\ resp.cached = FALSE /\ Truthy(resp.ip)
    /\ queue = <<SaveJob(resp.city, resp.country, Unflagged(resp.data),
                         resp.ip, resp.user_agent)>>

NoSaveJobQueued ==
    \A i \in 1..Len(queue) : queue[i].task # "save_weather_query_async"

\* C8: once the runner has run the persist-history jobs, the last lookup that
\* fetched from the provider with a client IP has its row in the history.
C8_FreshFetchPersisted ==
    (/\ resp.status = 200 /\ resp.cached = FALSE /\ Truthy(resp.ip)
     /\ NoSaveJobQueued) =>
        \E i \in 1..Len(history) :
            /\ history[i].city = resp.city
            /\ history[i].ip_address = resp.ip
            /\ history[i].temperature = resp.data.temperature

\* a step of RunCleanupJob
CleanupStep ==
    \E i \in 1..Len(queue) :
        queue[i] = CleanupJob /\ queue' = RemoveAt(queue, i)

Min(a, b) == IF a < b THEN a ELSE b

\* C9: a run of the trim job on n rows succeeds, leaves the min(n, 100) most
\* recently created rows and returns the number of rows it deleted.
C9_TrimKeepsNewest ==
    [][CleanupStep =>
        LET n == Len(history)
            m == Min(n, 100)
        IN  /\ last_job'.exc = NoExc
            /\ history' = SubSeq(history, n - m + 1, n)
            /\ last_job'.result = n - m]_vars

\* C10: a run of the trim job that follows another with no row created in
\* between deletes nothing: the history store stays as the first run left it.
C10_TrimIdempotent ==
    [][(/\ CleanupStep
        /\ last_job.task = "cleanup_old_queries"
        /\ last_job.next_id = next_id) =>
        history' = history]_vars

C10_Witness ==
    /\ last_job.task = "cleanup_old_queries" /\ last_job.rerun
    /\ Len(history) > KeepCount

\* the city is missing, empty, whitespace-only or shorter than 2 characters
\* after trimming
BadCity(city) == city = None \/ Len(Strip(city)) < 2

ProviderFailed(reply) ==
    reply.kind # "response" \/ reply.status \notin 200..299

\* the message that identifies the kind of a provider failure
FailureMessage(reply) ==
    CASE reply.kind = "timeout" -> "Timeout ao buscar dados"
      [] reply.kind = "connection" -> "Erro de conexao com a API"
      [] reply.kind = "response" /\ reply.status = 404 -> "Cidade nao encontrada"
      [] reply.kind = "response" /\ reply.status = 401 -> "API key invalida"
      [] OTHER -> "Erro ao buscar dados"

\* C12: a lookup whose provider call fails is answered 400 with the message
\* of the failure's kind: not found for 404, invalid credential for 401,
\* timeout, connection error, and the upstream error for any other status
\* outside 2xx and any other transport exception.
C12_ProviderFailureIs400 ==
    [][(LookupStep /\ api_calls' = api_calls + 1) =>
        \A request \in Requests : \A reply \in RepliesTo(request) :
        (ProviderFailed(reply) /\ GetWeatherFor(request, reply)) =>
            /\ resp'.status = 400
            /\ resp'.error = FailureMessage(reply)]_vars

\* the required fields a payload does not hold
Lacking(p) ==
    {RequiredAccesses[i] : i \in
        {i \in 1..Len(RequiredAccesses) :
            \/ RequiredAccesses[i] \notin p.keys
            \/ ParentKey(RequiredAccesses[i]) = "weather" /\ p.weather_items = 0}}

\* the malformed-response messages that name a field p lacks, or the object
\* that should hold it
LackingMsgs(p) ==
    {IncompleteMsg(k) : k \in Lacking(p)}
    \cup {IncompleteMsg(ParentKey(k)) : k \in {l \in Lacking(p) : ParentKey(l) # ""}}

\* C13: a 2xx payload that lacks a required field makes the parse fail with
\* the malformed-response error naming a missing field, and yields no
\* record: nothing is returned and nothing is cached.
C13_MissingFieldNamed ==
    [][(LookupStep /\ api_calls' = api_calls + 1) =>
        \A request \in Requests : \A reply \in RepliesTo(request) :
        (/\ ~ProviderFailed(reply) /\ Lacking(reply.payload) # {}
         /\ GetWeatherFor(request, reply)) =>
            /\ resp'.exc = "ValueError"
            /\ resp'.error \in LackingMsgs(reply.payload)
            /\ resp'.data = NoData
            /\ cache' = cache]_vars

\* C14 (as stated): while the credential is not configured every lookup
\* request is answered 400 with the configuration-error message, whatever
\* city and country it carries and whatever the cache holds, and the
\* provider is not called.
C14_NoCredentialAlways400 ==
    [][(LookupStep /\ api_key = FALSE) =>
        /\ resp'.status = 400
        /\ resp'.error = "API key nao configurada"
        /\ api_calls' = api_calls]_vars

\* C14 (amended): while the credential is not configured no lookup request
\* calls the provider; a request that fails validation is answered with the
\* validation error, a request whose key has a readable cache entry is
\* served from it, and every other request is answered 400 with the
\* configuration-error message, the cache and the queue left as they were.
C14_NoCredential ==
    [][(LookupStep /\ api_key = FALSE) =>
        /\ api_calls' = api_calls
        /\ resp'.details # {} => resp'.status = 400
        /\ resp'.cached =>
              /\ resp'.status = 200
              /\ CacheGet(cache, RespKey(resp'), now) = Unflagged(resp'.data)
        /\ (resp'.details = {} /\ ~resp'.cached) =>
              /\ resp'.status = 400
              /\ resp'.error = "API key nao configurada"
              /\ cache' = cache /\ queue' = queue]_vars

C14_Witness ==
    /\ api_key = FALSE /\ resp.status = 400
    /\ resp.error = "API key nao configurada"
    /\ api_calls = 1 /\ lookups = 2
    /\ \E k \in DOMAIN cache : CacheGet(cache, k, now) # NoData

\* a step of GetHistoryView
HistoryViewStep ==
    /\ steps' = steps + 1 /\ resp'.endpoint = "history"
    /\ now' = now /\ queue' = queue /\ next_id' = next_id

\* C15: a history request whose limit parameter is present and is not a
\* number, or is an integer <= 0, is answered 400 without the history store
\* being read; a limit above 100 is answered 200 with at most 100 entries.
C15_BadLimitRejected ==
    [][HistoryViewStep =>
        \A limit_param \in LimitParams \ {None} : \A id_desc \in BOOLEAN :
        GetHistoryFor(limit_param, id_desc) =>
            LET parsed == PyInt(limit_param) IN
            IF parsed.exc # NoExc \/ parsed.value <= 0
            THEN resp'.status = 400 /\ resp'.reads = {} /\ resp'.rows = <<>>
            ELSE parsed.value > 100 =>
                    /\ resp'.status = 200
                    /\ Len(resp'.rows) = Min(100, Len(history))]_vars

\* the limit parameters of the cases C16 is about: none given, or an
\* integer of 1 or more
PlainLimits ==
    {None} \cup {q \in LimitParams \ {None} :
                    PyInt(q).exc = NoExc /\ PyInt(q).value >= 1}

\* C16: with n rows in the history store the history endpoint answers 200
\* with min(L, n) entries, L being 10 when no limit is given, the limit when
\* it is between 1 and 100 and 100 when it is above; the entries are rows of
\* the store, in order of non-increasing creation timestamp, and no row left
\* out was created after one that is returned.
C16_HistoryListing ==
    [][HistoryViewStep =>
        \A limit_param \in PlainLimits : \A id_desc \in BOOLEAN :
        GetHistoryFor(limit_param, id_desc) =>
            LET L == IF limit_param = None THEN 10
                     ELSE Min(PyInt(limit_param).value, 100)
                n == Len(history)
                m == Len(resp'.rows)
                listed == {resp'.rows[k].id : k \in 1..m}
            IN  /\ resp'.status = 200
                /\ m = Min(L, n)
                /\ Cardinality(listed) = m
                /\ \A k \in 1..m : \E i \in 1..n :
                        /\ history[i].id = resp'.rows[k].id
                        /\ Serialize(history[i]) = resp'.rows[k]
                /\ \A k \in 1..(m - 1) :
                        resp'.rows[k].query_timestamp
                            >= resp'.rows[k + 1].query_timestamp
                /\ \A i \in 1..n : history[i].id \notin listed =>
                        history[i].query_timestamp
                            <= resp'.rows[m].query_timestamp]_vars

C16_Witness ==
    /\ resp.endpoint = "history" /\ resp.status = 200
    /\ Len(history) > MaxLimit /\ Len(resp.rows) = MaxLimit
    /\ resp.rows[1].id = history[Len(history)].id
    /\ resp.rows[1].query_timestamp = resp.rows[2].query_timestamp

\* the ids of the rows of a table
Ids(rows) == {rows[i].id : i \in 1..Len(rows)}

\* a step of RunSaveJob
SaveStep ==
    \E i \in 1..Len(queue) :
        /\ queue[i].task = "save_weather_query_async"
        /\ \/ queue' = RemoveAt(queue, i)
           \/ queue' = RemoveAt(queue, i) \o <<CleanupJob>>

\* C17: a history row appears only in a step of the persist-history job and
\* disappears only in a step of the trim job, and a row that stays is never
\* changed; so no step of the lookup, history or health endpoint creates,
\* changes or deletes a row.
C17_HistoryWrittenByJobsOnly ==
    [][/\ Ids(history') \ Ids(history) # {} => SaveStep
       /\ Ids(history) \ Ids(history') # {} => CleanupStep
       /\ \A i \in 1..Len(history) : \A j \in 1..Len(history') :
            history[i].id = history'[j].id => history[i] = history'[j]
       /\ ~(SaveStep \/ CleanupStep) => history' = history]_vars

C17_Witness ==
    /\ Len(history) = 2
    /\ resp.endpoint = "history" /\ Len(resp.rows) = 2
    /\ lookups = 1 /\ api_calls = 1 /\ DOMAIN cache # {}
    /\ last_job.task = "save_weather_query_async"

C20_UnexpectedIs500 ==
    [][LookupStep =>
        /\ resp'.exc \notin {NoExc, "ValueError"} =>
              resp'.status = 500 /\ resp'.error = "Erro interno do servidor"
        /\ resp'.status = 500 => resp'.error = "Erro interno do servidor"
        /\ api_calls' = api_calls + 1 =>
              \A request \in Requests : \A reply \in RepliesTo(request) :
              (/\ ~ProviderFailed(reply) /\ Lacking(reply.payload) # {}
               /\ GetWeatherFor(request, reply)) =>
                    /\ resp'.status = 400
                    /\ resp'.error \in {IncompleteMsg(k) : k \in PayloadKeys}]_vars

\* C19: lookups that overlap are not coordinated.  A lookup misses exactly
\* when the entry of its key is not readable, whatever the other worker is
\* doing; a lookup that missed calls the provider; a lookup that fetched
\* writes its own record over whatever the cache holds for its key, so the
\* entry is that of the later write, and answers cached=false.
C19_UncoordinatedMisses ==
    [][\A w \in Workers :
        /\ (inflight[w].pc = "idle" /\ inflight'[w].pc # "idle") =>
              LET key == MakeCacheKey(inflight'[w].city, inflight'[w].country)
              IN  (inflight'[w].pc = "fetch") <=> (CacheGet(cache, key, now) = NoData)
        /\ (inflight[w].pc = "fetch" /\ inflight'[w].pc # "fetch") =>
              api_calls' = api_calls + 1
        /\ (inflight[w].pc = "store" /\ inflight'[w].pc # "store") =>
              /\ WorkerKey(w) \in DOMAIN cache'
              /\ cache'[WorkerKey(w)].value = inflight[w].fetched
              /\ cache'[WorkerKey(w)].set_at = now
              /\ \A k \in DOMAIN cache \ {WorkerKey(w)} :
                    k \in DOMAIN cache' /\ cache'[k] = cache[k]
              /\ inflight'[w].resp.status = 200
              /\ inflight'[w].resp.cached = FALSE
              /\ Unflagged(inflight'[w].resp.data) = inflight[w].fetched]_vars

\* both lookups missed, both called the provider, both answered
\* cached=false, and the cache holds the record of the one that wrote last
C19_Witness ==
    /\ inflight[1].pc = "done" /\ inflight[2].pc = "done"
    /\ WorkerKey(1) = WorkerKey(2)
    /\ api_calls = 2
    /\ inflight[1].resp.status = 200 /\ inflight[1].resp.cached = FALSE
    /\ inflight[2].resp.status = 200 /\ inflight[2].resp.cached = FALSE
    /\ inflight[1].stored_at < inflight[2].stored_at
    /\ cache[WorkerKey(1)].set_at = inflight[2].stored_at
    /\ cache[WorkerKey(1)].value = Unflagged(inflight[2].resp.data)
    /\ cache[WorkerKey(1)].value # Unflagged(inflight[1].resp.data)

(***************************************************************************)
(* C21: a trim job that runs while other jobs write to the table deletes   *)
(* no row that is newer than a row it leaves in the table, and the rows    *)
(* created while it ran, those created between its selection and its       *)
(* delete among them, are still in the table when it ends.                 *)
(***************************************************************************)
Newer(a, b) ==
    \/ a.query_timestamp > b.query_timestamp
    \/ a.query_timestamp = b.query_timestamp /\ a.id > b.id

TrimEnds == trimmer.pc # "idle" /\ trimmer'.pc = "idle"

Quiescent == queue = << >> /\ trimmer.pc = "idle"

C22_BoundedRetention ==
    (Quiescent /\ trimmer.first_new = next_id) => Len(history) <= KeepCount

(***************************************************************************)
(* C23: a cache hit does not extend the entry's lifetime.  The cache is    *)
(* written only by a lookup that fetched; a hit writes nothing, is served  *)
(* no more than cache_timeout after the provider call whose record it      *)
(* returns, and returns that record, timestamp included, as it was         *)
(* fetched.                                                                *)
(***************************************************************************)
HitStep(w) ==
    /\ inflight[w].pc = "idle" /\ inflight'[w].pc = "done"
    /\ inflight'[w].resp.status = 200 /\ inflight'[w].resp.cached = TRUE

CacheWrittenByFetchOnly ==
    cache' # cache =>
        \E v \in Workers : inflight[v].pc = "store" /\ inflight'[v].pc = "done"

\* the record served to w is the one a lookup fetched and stored
ServesStoredRecord(w) ==
    \E v \in Workers \ {w} :
        /\ inflight[v].pc = "done" /\ inflight[v].stored_at >= 0
        /\ Unflagged(inflight'[w].resp.data) = inflight[v].fetched
        /\ cache[WorkerKey(v)].set_at = inflight[v].stored_at
        /\ inflight[v].fetched.timestamp <= inflight[v].stored_at

C23_HitWithinTimeoutOfFetch ==
    [][/\ CacheWrittenByFetchOnly
       /\ \A w \in Workers : HitStep(w) =>
            /\ cache' = cache
            /\ ServesStoredRecord(w)
            /\ now - inflight'[w].resp.data.timestamp <= cache_timeout]_vars

(***************************************************************************)
(* C23 (amended): the lifetime runs from the cache write, which follows    *)
(* the provider call: a hit is served less than cache_timeout after the    *)
(* write that stored its record.                                           *)
(***************************************************************************)
C23_HitWithinTimeoutOfWrite ==
    [][/\ CacheWrittenByFetchOnly
       /\ \A w \in Workers : HitStep(w) =>
            /\ cache' = cache
            /\ ServesStoredRecord(w)
            /\ \E v \in Workers \ {w} :
                    /\ Unflagged(inflight'[w].resp.data) = inflight[v].fetched
                    /\ now < inflight[v].stored_at + cache_timeout]_vars

\* a lookup was answered from the cache with the record another lookup
\* fetched and, later than it fetched it, stored
C23_Witness ==
    \E w, v \in Workers :
        /\ w # v
        /\ inflight[w].pc = "done" /\ inflight[w].resp.status = 200
        /\ inflight[w].resp.cached = TRUE
        /\ inflight[v].pc = "done" /\ inflight[v].stored_at >= 0
        /\ Unflagged(inflight[w].resp.data) = inflight[v].fetched
        /\ inflight[v].fetched.timestamp < inflight[v].stored_at
        /\ WorkerKey(v) \in DOMAIN cache
        /\ cache[WorkerKey(v)].value = inflight[v].fetched

====
